---- MODULE Spec2Model ----
(***************************************************************************)
(* autoreqs: scan a folder for .py / .ipynb files, extract the root        *)
(* package of every import statement, intersect with `pip freeze` and      *)
(* write requirements.txt.                                                 *)
(*                                                                         *)
(* Texts are sequences of one-character strings, so that the regular       *)
(* expression, str.split, str.strip, str.lower and the string ordering of  *)
(* list.sort are computed character by character.                          *)
(***************************************************************************)
EXTENDS Integers, Sequences, FiniteSets, TLC

VARIABLES
    rootExists,        \* folder_path names an existing directory
    disk,              \* the files under folder_path, in os.walk order
    pipPresent,        \* the pip executable can be located
    pipStdout,         \* what `pip freeze` prints
    req,               \* <folder_path>/requirements.txt: [exists, content]
    pc,                \* position of main
    files,             \* main: files
    idx,               \* main: position of the for loop over files
    all_imports,       \* main: all_imports
    freeze_packages,   \* main: freeze_packages
    missing_packages,  \* main: missing_packages
    ret,               \* value returned by the last extractor call
    res,               \* main: res, the answer read by input()
    exc,               \* the exception that ended main, "none" if none
    log,               \* records of the "autoreqs" logger, autoreqs.log
    calls,             \* how often each stage of this run was entered
    opened,            \* positions of files whose open() succeeded
    reqBefore,         \* requirements.txt when this run started
    prev,              \* what the previous run wrote, and from what
    runs               \* number of runs of main started

vars == << rootExists, disk, pipPresent, pipStdout, req, pc, files, idx,
           all_imports, freeze_packages, missing_packages, ret, res, exc, log,
           calls, opened, reqBefore, prev, runs >>

-----------------------------------------------------------------------------
(* Bounds of the model *)

MaxFiles == 2      \* files under the scanned folder
MaxLines == 2      \* lines of a source text in the extraction harness
MaxCells == 2      \* cells of a notebook in the extraction harness
MaxRuns == 2       \* runs of main over the same folder

-----------------------------------------------------------------------------
(* Characters and strings *)

\* The characters of the model in code point order (str comparison, l. 194).
Alphabet ==
    << "\t", "\n", " ", "-", ".", "0", "1", "2", "3", "9", "=",
       "A", "Y", "_",
       "a", "b", "c", "d", "e", "f", "i", "m", "n", "o", "p", "r", "s", "t",
       "x", "y", "z" >>

Ord(c) == CHOOSE i \in 1..Len(Alphabet) : Alphabet[i] = c

Range(s) == { s[i] : i \in 1..Len(s) }

\* \s of the re module
IsSpace(c) == c \in {" ", "\t", "\n"}

\* [a-zA-Z0-9_\.]
IsNameChar(c) ==
    c \in { "A", "Y", "a", "b", "c", "d", "e", "f", "i", "m", "n", "o", "p",
            "r", "s", "t", "x", "y", "z", "0", "1", "2", "3", "9", "_", "." }

\* str.lower, character by character
LowerChar(c) == CASE c = "A" -> "a" [] c = "Y" -> "y" [] OTHER -> c

Lower(s) == [i \in 1..Len(s) |-> LowerChar(s[i])]

\* s[i:] of Python, for a 1-based i
Drop(s, i) == SubSeq(s, i, Len(s))

HasPrefixAt(t, i, w) ==
    /\ i + Len(w) - 1 <= Len(t)
    /\ \A k \in 1..Len(w) : t[i + k - 1] = w[k]

\* index of the first occurrence of sep in s, 0 if none (str.find + 1)
Find(s, sep) ==
    IF \E i \in 1..Len(s) : HasPrefixAt(s, i, sep)
    THEN CHOOSE i \in 1..Len(s) :
            /\ HasPrefixAt(s, i, sep)
            /\ \A j \in 1..(i - 1) : ~HasPrefixAt(s, j, sep)
    ELSE 0

RECURSIVE Split(_, _)
\* str.split(sep)
Split(s, sep) ==
    LET k == Find(s, sep) IN
    IF k = 0 THEN << s >>
    ELSE << SubSeq(s, 1, k - 1) >> \o Split(Drop(s, k + Len(sep)), sep)

RECURSIVE Join(_, _)
\* sep.join(parts)
Join(parts, sep) ==
    IF parts = << >> THEN << >>
    ELSE IF Len(parts) = 1 THEN parts[1]
    ELSE parts[1] \o sep \o Join(Tail(parts), sep)

\* str.strip()
Strip(s) ==
    IF \A i \in 1..Len(s) : IsSpace(s[i]) THEN << >>
    ELSE LET a == CHOOSE i \in 1..Len(s) :
                     ~IsSpace(s[i]) /\ \A j \in 1..(i - 1) : IsSpace(s[j])
             b == CHOOSE i \in 1..Len(s) :
                     ~IsSpace(s[i]) /\ \A j \in (i + 1)..Len(s) : IsSpace(s[j])
         IN SubSeq(s, a, b)

\* s < t of Python strings: code point by code point, a proper prefix first
RECURSIVE StrLess(_, _)
StrLess(s, t) ==
    IF t = << >> THEN FALSE
    ELSE IF s = << >> THEN TRUE
    ELSE IF s[1] = t[1] THEN StrLess(Tail(s), Tail(t))
    ELSE Ord(s[1]) < Ord(t[1])

\* the lists a Python set can be iterated as: every order, each element once
ListsOf(S) ==
    { s \in [1..Cardinality(S) -> S] : \A x \in S : \E i \in DOMAIN s : s[i] = x }

NL == << "\n" >>
DOT == << "." >>
EQEQ == << "=", "=" >>

-----------------------------------------------------------------------------
(* The import pattern  ^\s*(import|from)\s+([a-zA-Z0-9_\.]+)  re.MULTILINE *)

kwImport == << "i", "m", "p", "o", "r", "t" >>
kwFrom == << "f", "r", "o", "m" >>

\* ^ under re.MULTILINE: the start of the text or just after a newline
AtLineStart(t, i) == i = 1 \/ t[i - 1] = "\n"

\* end of the longest run of \s starting at i (greedy \s*, \s+)
SpanSpace(t, i) ==
    CHOOSE j \in i..(Len(t) + 1) :
        /\ \A k \in i..(j - 1) : IsSpace(t[k])
        /\ j = Len(t) + 1 \/ ~IsSpace(t[j])

\* end of the longest run of name characters starting at i (greedy [...]+)
SpanName(t, i) ==
    CHOOSE j \in i..(Len(t) + 1) :
        /\ \A k \in i..(j - 1) : IsNameChar(t[k])
        /\ j = Len(t) + 1 \/ ~IsNameChar(t[j])

\* one attempt of the pattern at position i
MatchAt(t, i) ==
    LET a == SpanSpace(t, i)
        kw == IF HasPrefixAt(t, a, kwImport) THEN kwImport
              ELSE IF HasPrefixAt(t, a, kwFrom) THEN kwFrom
              ELSE << >>
        b == a + Len(kw)
        c == SpanSpace(t, b)
        d == SpanName(t, c)
    IN [ ok   |-> AtLineStart(t, i) /\ kw # << >> /\ c > b /\ d > c,
         kw   |-> kw,
         name |-> SubSeq(t, c, d - 1),
         end  |-> d ]

RECURSIVE FindAllFrom(_, _)
FindAllFrom(t, i) ==
    IF i > Len(t) THEN << >>
    ELSE LET m == MatchAt(t, i) IN
         IF m.ok THEN << << m.kw, m.name >> >> \o FindAllFrom(t, m.end)
         ELSE FindAllFrom(t, i + 1)

\* re.findall(pattern, t, re.MULTILINE): the (keyword, dotted name) pairs
FindAll(t) == FindAllFrom(t, 1)

\* variant: the dotted name is kept whole, without split(".")[0]
RootNames_whole(t) ==
    LET m == FindAll(t) IN
    [i \in 1..Len(m) |-> m[i][2]]

\* for statement in import_statements: add(statement[1].split(".")[0])
RootNames(t) ==
    LET m == FindAll(t) IN
    [i \in 1..Len(m) |-> Split(m[i][2], DOT)[1]]

-----------------------------------------------------------------------------
(* Files, the log, the extractors *)

\* a file under the folder: its name, whether it is still there, and what it
\* holds: a text (kind "text"), or a notebook that is blank, is not JSON, or
\* parses to an object with or without "cells"
File(name, kind, text, hasCells, cells) ==
    [ name |-> name, present |-> TRUE, kind |-> kind, text |-> text,
      hasCells |-> hasCells, cells |-> cells ]

Cell(cell_type, source) == [ cell_type |-> cell_type, source |-> source ]

\* str.endswith(suffix)
EndsWith(s, suffix) ==
    /\ Len(s) >= Len(suffix)
    /\ Drop(s, Len(s) - Len(suffix) + 1) = suffix

extPy == << ".", "p", "y" >>
extIpynb == << ".", "i", "p", "y", "n", "b" >>

\* str.endswith(tuple)
EndsWithAny(s, extensions) == \E e \in extensions : EndsWith(s, e)

LogRec(level, msg, n) == [ level |-> level, msg |-> msg, n |-> n ]

\* a set of names becomes a list in some order
extract_imports_from_py(f) ==
    IF ~f.present
    THEN [ rets |-> { << >> }, opened |-> FALSE,
           log |-> << LogRec("ERROR", "File not found", 0) >> ]
    ELSE [ rets |-> ListsOf(Range(RootNames(f.text))), opened |-> TRUE,
           log |-> << >> ]

RECURSIVE CellsNames_all(_)
\* variant: the cell_type test is missing, every cell is scanned
CellsNames_all(cells) ==
    IF cells = << >> THEN { }
    ELSE Range(RootNames(Join(cells[1].source, NL)))
         \cup CellsNames_all(Tail(cells))

RECURSIVE CellsNames(_)
\* the loop over content.get("cells", []) after the first k cells
CellsNames(cells) ==
    IF cells = << >> THEN { }
    ELSE ( IF cells[1].cell_type = "code"
           THEN Range(RootNames(Join(cells[1].source, NL)))
           ELSE { } )
         \cup CellsNames(Tail(cells))

extract_imports_from_ipynb(f) ==
    IF ~f.present
    THEN [ rets |-> { << >> }, opened |-> FALSE,
           log |-> << LogRec("ERROR", "File not found", 0) >> ]
    ELSE IF f.kind = "blank"
    THEN [ rets |-> { << >> }, opened |-> TRUE,
           log |-> << LogRec("ERROR", "File is empty", 0) >> ]
    ELSE IF f.kind = "invalid"
    THEN [ rets |-> { << >> }, opened |-> TRUE,
           log |-> << LogRec("ERROR", "Invalid JSON", 0) >> ]
    ELSE LET imported_packages ==
                 CellsNames(IF f.hasCells THEN f.cells ELSE << >>)
         IN [ rets |-> ListsOf(imported_packages), opened |-> TRUE,
              log |-> << LogRec("INFO", "Found packages in file",
                                Cardinality(imported_packages)) >> ]

-----------------------------------------------------------------------------
(* The inventory and the reconciliation *)

\* the value of freeze_packages: a dict (a function on its keys) or a list
Dict(d) == [ type |-> "dict", map |-> d ]
List(l) == [ type |-> "list", map |-> l ]

RECURSIVE BuildVersions(_, _)
\* for pkg in packages: temp = pkg.split("=="); if len(temp) == 2: ...
BuildVersions(packages, versions) ==
    IF packages = << >> THEN versions
    ELSE LET temp == Split(packages[1], EQEQ) IN
         BuildVersions(Tail(packages),
                       IF Len(temp) = 2
                       THEN (temp[1] :> temp[2]) @@ versions
                       ELSE versions)

\* variant: the missing executable is not logged
get_pip_freeze_silent(present, stdout) ==
    IF ~present
    THEN [ value |-> List(<< >>), log |-> << >> ]
    ELSE LET versions == BuildVersions(Split(Strip(stdout), NL), << >>) IN
         [ value |-> Dict(versions),
           log |-> << LogRec("INFO", "pip freeze found packages",
                             Cardinality(DOMAIN versions)) >> ]

get_pip_freeze(present, stdout) ==
    IF ~present
    THEN [ value |-> List(<< >>),
           log |-> << LogRec("ERROR", "pip not found", 0) >> ]
    ELSE LET versions == BuildVersions(Split(Strip(stdout), NL), << >>) IN
         [ value |-> Dict(versions),
           log |-> << LogRec("INFO", "pip freeze found packages",
                             Cardinality(DOMAIN versions)) >> ]

\* pkg in freeze_packages
Contains(fp, pkg) ==
    IF fp.type = "list" THEN pkg \in Range(fp.map) ELSE pkg \in DOMAIN fp.map

\* variant: f"{pkg}={freeze_packages[pkg]}"
Entry_single(pkg, version) == pkg \o << "=" >> \o version

\* f"{pkg}=={freeze_packages[pkg]}"
Entry(pkg, version) == pkg \o EQEQ \o version

RECURSIVE compare_packages(_, _)
compare_packages(extracted_packages, fp) ==
    IF extracted_packages = << >> THEN << >>
    ELSE LET pkg == extracted_packages[1] IN
         ( IF Contains(fp, pkg) THEN << Entry(pkg, fp.map[pkg]) >> ELSE << >> )
         \o compare_packages(Tail(extracted_packages), fp)

RECURSIVE Insert(_, _)
Insert(x, s) ==
    IF s = << >> THEN << x >>
    ELSE IF StrLess(x, s[1]) THEN << x >> \o s
    ELSE << s[1] >> \o Insert(x, Tail(s))

\* variant: the list is written in the order compare_packages built it
Sort_none(s) == s

RECURSIVE Sort(_)
\* list.sort() on strings
Sort(s) == IF s = << >> THEN << >> ELSE Insert(s[Len(s)], Sort(SubSeq(s, 1, Len(s) - 1)))

RECURSIVE find_files_from(_, _, _)
find_files_from(d, i, extensions) ==
    IF i > Len(d) THEN << >>
    ELSE ( IF d[i].present /\ EndsWithAny(d[i].name, extensions)
           THEN << i >> ELSE << >> )
         \o find_files_from(d, i + 1, extensions)

\* os.walk yields nothing for a folder that does not exist; a path is the
\* position of the file on the disk
find_files_in_folder(exists, d) ==
    IF exists THEN find_files_from(d, 1, { extPy, extIpynb }) ELSE << >>

\* for pkg in missing_packages: file.write(pkg + "\n")
RECURSIVE WriteLines(_)
WriteLines(pkgs) ==
    IF pkgs = << >> THEN << >>
    ELSE pkgs[1] \o NL \o WriteLines(Tail(pkgs))

-----------------------------------------------------------------------------
(* The folders, inventories and answers the runs are checked on *)

sp == << " " >>

\* "import a.c\nfrom b import d\n"
textAB ==
    kwImport \o sp \o << "a", ".", "c" >> \o NL
    \o kwFrom \o sp \o << "b" >> \o sp \o kwImport \o sp \o << "d" >> \o NL

namePy == << "a" >> \o extPy
nameIpynb == << "n" >> \o extIpynb
nameTxt == << "r", ".", "t", "x", "t" >>

\* a notebook: a code cell importing b and a1, a markdown cell quoting import A
cellsB ==
    << Cell("code", << kwImport \o sp \o << "b" >> \o NL,
                       kwImport \o sp \o << "a", "1" >> \o NL >>),
       Cell("markdown", << kwImport \o sp \o << "A" >> \o NL >>) >>

FilePool ==
    { File(namePy, "text", textAB, FALSE, << >>),
      File(nameIpynb, "object", << >>, TRUE, cellsB),
      File(nameIpynb, "blank", << >>, FALSE, << >>),
      File(nameIpynb, "invalid", << >>, FALSE, << >>),
      File(nameTxt, "text", textAB, FALSE, << >>) }

\* "a==2\na1==1\nb==3\n"
pipOut1 ==
    << "a" >> \o EQEQ \o << "2" >> \o NL
    \o << "a", "1" >> \o EQEQ \o << "1" >> \o NL
    \o << "b" >> \o EQEQ \o << "3" >> \o NL

\* "A==9\n-e x\nb==3\n\n"
pipOut2 ==
    << "A" >> \o EQEQ \o << "9" >> \o NL
    \o << "-", "e", " ", "x" >> \o NL
    \o << "b" >> \o EQEQ \o << "3" >> \o NL \o NL

PipOutputs == { pipOut1, pipOut2 }

\* what input() may return
Answers ==
    { << "y" >>, << "Y" >>, << "n" >>, << "y", "e", "s" >>, << " ", "y" >>,
      << >> }

\* "z==0\n", a manifest left by something else
oldManifest == << "z" >> \o EQEQ \o << "0" >> \o NL

Absent == [ exists |-> FALSE, content |-> << >> ]

NoPrev == [ written |-> FALSE, imports |-> { }, content |-> << >> ]

NoCalls ==
    [ logger |-> 0, discovery |-> 0, inventory |-> 0, reconciliation |-> 0,
      emission |-> 0, prompt |-> 0, wopen |-> 0, extract |-> << >> ]

\* the locals of main before main runs
Fresh ==
    /\ files = << >>
    /\ idx = 0
    /\ all_imports = { }
    /\ freeze_packages = List(<< >>)
    /\ missing_packages = << >>
    /\ ret = << >>
    /\ res = << >>
    /\ exc = "none"
    /\ log = << >>
    /\ calls = NoCalls
    /\ opened = { }

Init ==
    /\ rootExists \in BOOLEAN
    /\ disk \in IF rootExists
                THEN UNION { [1..n -> FilePool] : n \in 0..MaxFiles }
                ELSE { << >> }
    /\ pipPresent \in BOOLEAN
    /\ pipStdout \in IF pipPresent THEN PipOutputs ELSE { << >> }
    /\ req \in IF rootExists
               THEN { Absent, [ exists |-> TRUE, content |-> oldManifest ] }
               ELSE { Absent }
    /\ pc = "start"
    /\ Fresh
    /\ reqBefore = req
    /\ prev = NoPrev
    /\ runs = 1

-----------------------------------------------------------------------------
(* main, statement by statement *)

\* l. 179: create_logger opens autoreqs.log with mode "w"
CreateLogger ==
    /\ pc = "start"
    /\ log' = << >>
    /\ calls' = [calls EXCEPT !.logger = @ + 1]
    /\ pc' = "discover"
    /\ UNCHANGED << rootExists, disk, pipPresent, pipStdout, req, files, idx,
                    all_imports, freeze_packages, missing_packages, ret, res,
                    exc, opened, reqBefore, prev, runs >>

\* l. 181-182
Discover ==
    /\ pc = "discover"
    /\ files' = find_files_in_folder(rootExists, disk)
    /\ all_imports' = { }
    /\ log' = log \o << LogRec("INFO", "Found files in folder", Len(files')) >>
    /\ calls' = [calls EXCEPT !.discovery = @ + 1,
                              !.extract = [i \in 1..Len(files') |-> 0]]
    /\ pc' = "inventory"
    /\ UNCHANGED << rootExists, disk, pipPresent, pipStdout, req, idx,
                    freeze_packages, missing_packages, ret, res, exc, opened,
                    reqBefore, prev, runs >>

\* l. 183
Inventory ==
    /\ pc = "inventory"
    /\ LET r == get_pip_freeze(pipPresent, pipStdout) IN
        /\ freeze_packages' = r.value
        /\ log' = log \o r.log
    /\ calls' = [calls EXCEPT !.inventory = @ + 1]
    /\ idx' = 1
    /\ pc' = "extract"
    /\ UNCHANGED << rootExists, disk, pipPresent, pipStdout, req, files,
                    all_imports, missing_packages, ret, res, exc, opened,
                    reqBefore, prev, runs >>

\* l. 186-189: the extractor main calls for a path, by its suffix
ExtractorFor(f) ==
    IF EndsWith(f.name, extPy) THEN extract_imports_from_py(f)
    ELSE IF EndsWith(f.name, extIpynb) THEN extract_imports_from_ipynb(f)
    ELSE [ rets |-> { << >> }, opened |-> FALSE, log |-> << >> ]

\* variant: a file the extractor could not use ends the loop
NextIdx_break(r, i, n) ==
    IF \E k \in 1..Len(r.log) : r.log[k].level = "ERROR" THEN n + 1 ELSE i + 1

\* l. 185: the loop goes on to the next file whatever the extractor met
NextIdx(r, i, n) == i + 1

\* l. 185-189: one iteration of the loop over files
Extract ==
    /\ pc = "extract"
    /\ idx <= Len(files)
    /\ LET r == ExtractorFor(disk[files[idx]]) IN
        /\ \E l \in r.rets :
            /\ ret' = l
            /\ all_imports' = all_imports \cup Range(l)
        /\ log' = log \o r.log
        /\ opened' = IF r.opened THEN opened \cup { idx } ELSE opened
    /\ calls' = [calls EXCEPT !.extract[idx] = @ + 1]
    /\ idx' = NextIdx(ExtractorFor(disk[files[idx]]), idx, Len(files))
    /\ UNCHANGED << rootExists, disk, pipPresent, pipStdout, req, pc, files,
                    freeze_packages, missing_packages, res, exc,
                    reqBefore, prev, runs >>

\* l. 191-194: compare_packages iterates the set in some order, then sort
Reconcile ==
    /\ pc = "extract"
    /\ idx > Len(files)
    /\ \E order \in ListsOf(all_imports) :
        missing_packages' = Sort(compare_packages(order, freeze_packages))
    /\ log' = log \o << LogRec("INFO", "Found missing packages",
                               Len(missing_packages')) >>
    /\ calls' = [calls EXCEPT !.reconciliation = @ + 1]
    /\ pc' = "emit"
    /\ UNCHANGED << rootExists, disk, pipPresent, pipStdout, req, files, idx,
                    all_imports, freeze_packages, ret, res, exc, opened,
                    reqBefore, prev, runs >>

\* variant: the existence check is missing, the file is always written
AfterCheck_skip(exists) == "write"

\* l. 197: the statement after the existence check
AfterCheck(exists) == IF exists THEN "prompt" ELSE "write"

\* l. 196-197: os.path.exists(req_path)
CheckExists ==
    /\ pc = "emit"
    /\ calls' = [calls EXCEPT !.emission = @ + 1]
    /\ pc' = AfterCheck(req.exists)
    /\ UNCHANGED << rootExists, disk, pipPresent, pipStdout, req, files, idx,
                    all_imports, freeze_packages, missing_packages, ret, res,
                    exc, log, opened, reqBefore, prev, runs >>

\* variant: res.strip().lower() != "y"
Declined_strip(answer) == Lower(Strip(answer)) # << "y" >>

\* l. 200: res.lower() != "y"
Declined(answer) == Lower(answer) # << "y" >>

\* l. 199-201
Prompt ==
    /\ pc = "prompt"
    /\ \E answer \in Answers :
        /\ res' = answer
        /\ pc' = IF Declined(answer) THEN "returned" ELSE "write"
    /\ calls' = [calls EXCEPT !.prompt = @ + 1]
    /\ UNCHANGED << rootExists, disk, pipPresent, pipStdout, req, files, idx,
                    all_imports, freeze_packages, missing_packages, ret,
                    exc, log, opened, reqBefore, prev, runs >>

\* l. 204-207: open(req_path, "wt") truncates; it raises FileNotFoundError
\* when the folder of req_path does not exist
Write ==
    /\ pc = "write"
    /\ calls' = [calls EXCEPT !.wopen = @ + 1]
    /\ IF rootExists
       THEN /\ req' = [ exists |-> TRUE, content |-> WriteLines(missing_packages) ]
            /\ pc' = "done"
            /\ exc' = exc
       ELSE /\ req' = req
            /\ pc' = "error"
            /\ exc' = "FileNotFoundError"
    /\ UNCHANGED << rootExists, disk, pipPresent, pipStdout, files, idx,
                    all_imports, freeze_packages, missing_packages, ret, res,
                    log, opened, reqBefore, prev, runs >>

\* the file main is about to open is removed after discovery (l. 42, l. 80);
\* main sees a removal only at the open, so it is placed just before it
RemoveFile ==
    /\ pc = "extract"
    /\ idx <= Len(files)
    /\ disk[files[idx]].present
    /\ disk' = [disk EXCEPT ![files[idx]].present = FALSE]
    /\ UNCHANGED << rootExists, pipPresent, pipStdout, req, pc, files, idx,
                    all_imports, freeze_packages, missing_packages, ret, res,
                    exc, log, calls, opened, reqBefore, prev,
                    runs >>

\* l. 210-218: the tool is run again on the same folder
NewRun ==
    /\ pc \in { "done", "returned" }
    /\ runs < MaxRuns
    /\ runs' = runs + 1
    /\ prev' = IF pc = "done"
               THEN [ written |-> TRUE, imports |-> all_imports,
                      content |-> req.content ]
               ELSE prev
    /\ reqBefore' = req
    /\ pc' = "start"
    /\ files' = << >>
    /\ idx' = 0
    /\ all_imports' = { }
    /\ freeze_packages' = List(<< >>)
    /\ missing_packages' = << >>
    /\ ret' = << >>
    /\ res' = << >>
    /\ exc' = "none"
    /\ log' = << >>
    /\ calls' = NoCalls
    /\ opened' = { }
    /\ UNCHANGED << rootExists, disk, pipPresent, pipStdout, req >>

Next ==
    \/ CreateLogger
    \/ Discover
    \/ Inventory
    \/ Extract
    \/ Reconcile
    \/ CheckExists
    \/ Prompt
    \/ Write
    \/ RemoveFile
    \/ NewRun

Spec == Init /\ [][Next]_vars

-----------------------------------------------------------------------------
(* The extractors on their own: one file, one call *)

\* "import a.b.c"
lineImportABC == kwImport \o sp \o << "a", ".", "b", ".", "c" >>

\* "from x.y import z"
lineFromXY ==
    kwFrom \o sp \o << "x", ".", "y" >> \o sp \o kwImport \o sp \o << "z" >>

\* "\t from a import b"
lineIndented ==
    << "\t", " " >> \o kwFrom \o sp \o << "a" >> \o sp \o kwImport \o sp \o << "b" >>

\* "import", the keyword alone
lineBare == kwImport

\* "x = 1"
lineOther == << "x", " ", "=", " ", "1" >>

LinePool == { lineImportABC, lineFromXY, lineIndented, lineBare, lineOther }

SourcePool ==
    { << kwImport \o sp \o << "b" >> \o NL >>,
      << kwImport, << "a", ".", "b" >> >>,
      << lineFromXY \o NL, kwImport \o sp \o << "b" >> \o NL >> }

CellPool == { Cell(t, src) : t \in { "code", "markdown" }, src \in SourcePool }

UnitFiles ==
    { File(namePy, "text", Join(ls, NL), FALSE, << >>) :
        ls \in UNION { [1..n -> LinePool] : n \in 0..MaxLines } }
    \cup { File(nameIpynb, "object", << >>, TRUE, cs) :
             cs \in UNION { [1..n -> CellPool] : n \in 0..MaxCells } }
    \cup { File(nameIpynb, "object", << >>, FALSE, << >>),
           File(nameIpynb, "blank", << >>, FALSE, << >>),
           File(nameIpynb, "invalid", << >>, FALSE, << >>) }

InitUnit ==
    /\ rootExists = TRUE
    /\ \E f \in UnitFiles, there \in BOOLEAN :
        disk = << [f EXCEPT !.present = there] >>
    /\ pipPresent = FALSE
    /\ pipStdout = << >>
    /\ req = Absent
    /\ pc = "unit"
    /\ Fresh
    /\ reqBefore = Absent
    /\ prev = NoPrev
    /\ runs = 1

\* l. 28-54 called on the file
UnitPy ==
    /\ pc = "unit"
    /\ EndsWith(disk[1].name, extPy)
    /\ LET r == extract_imports_from_py(disk[1]) IN
        /\ ret' \in r.rets
        /\ log' = log \o r.log
        /\ opened' = IF r.opened THEN { 1 } ELSE { }
    /\ pc' = "unit_done"
    /\ UNCHANGED << rootExists, disk, pipPresent, pipStdout, req, files, idx,
                    all_imports, freeze_packages, missing_packages, res, exc,
                    calls, reqBefore, prev, runs >>

\* l. 57-95 called on the file
UnitIpynb ==
    /\ pc = "unit"
    /\ EndsWith(disk[1].name, extIpynb)
    /\ LET r == extract_imports_from_ipynb(disk[1]) IN
        /\ ret' \in r.rets
        /\ log' = log \o r.log
        /\ opened' = IF r.opened THEN { 1 } ELSE { }
    /\ pc' = "unit_done"
    /\ UNCHANGED << rootExists, disk, pipPresent, pipStdout, req, files, idx,
                    all_imports, freeze_packages, missing_packages, res, exc,
                    calls, reqBefore, prev, runs >>

NextUnit == UnitPy \/ UnitIpynb

SpecExtract == InitUnit /\ [][NextUnit]_vars

-----------------------------------------------------------------------------
(* Properties *)

\* the part of a dotted name before its first "."
FirstComponent(d) ==
    LET k == CHOOSE n \in 0..Len(d) :
                 /\ \A j \in 1..n : d[j] # "."
                 /\ n = Len(d) \/ d[n + 1] = "."
    IN SubSeq(d, 1, k)

\* the root names of the statements the pattern matches in a text
TextNames(t) ==
    LET found == FindAll(t) IN
    { FirstComponent(found[k][2]) : k \in 1..Len(found) }

\* the root names found when the pattern is applied to each line on its own
LineNames(t) ==
    UNION { IF MatchAt(l, 1).ok THEN { FirstComponent(MatchAt(l, 1).name) } ELSE { } :
            l \in Range(Split(t, NL)) }

\* a line that holds only the keyword
IsBareKeyword(l) == Strip(l) \in { kwImport, kwFrom }

\* the orders a sequence can be put in
Reorderings(s) ==
    { [i \in 1..Len(s) |-> s[p[i]]] : p \in ListsOf(1..Len(s)) }

NoDuplicates(s) == \A i, j \in 1..Len(s) : i # j => s[i] # s[j]

IsPy(f) == EndsWith(f.name, extPy)
IsIpynb(f) == EndsWith(f.name, extIpynb)

\* the names a file holds, read off its content
ContentNames(f) ==
    IF IsPy(f) THEN TextNames(f.text)
    ELSE IF f.kind = "object" /\ f.hasCells
    THEN UNION { TextNames(Join(f.cells[i].source, NL)) :
                 i \in { j \in 1..Len(f.cells) : f.cells[j].cell_type = "code" } }
    ELSE { }

\* the k-th discovered file could not be used: not opened, blank, not JSON
Failing(k) ==
    \/ k \notin opened
    \/ IsIpynb(disk[files[k]]) /\ disk[files[k]].kind \in { "blank", "invalid" }

Affirmative == { << "y" >>, << "Y" >> }

\* C1: compare_packages is a filter. With the inventory a mapping M and the
\* extracted names E, the list returned holds the string p==M[p] for exactly
\* the p of E that are keys of M (exact match), once each, and nothing else.
C1_ReconcileIsFilter ==
    (calls.reconciliation = 1 /\ freeze_packages.type = "dict") =>
        LET M == freeze_packages.map
            both == all_imports \cap DOMAIN M
        IN /\ Range(missing_packages) = { p \o << "=", "=" >> \o M[p] : p \in both }
           /\ Len(missing_packages) = Cardinality(both)

\* C1 witness: a is imported, only A is installed; b is both; A is not imported
C1_Witness ==
    /\ calls.reconciliation = 1
    /\ pipStdout = pipOut2
    /\ all_imports = { << "a" >>, << "b" >> }
    /\ missing_packages = << << "b", "=", "=", "3" >> >>

\* C2: with requirements.txt present and an answer other than y or Y, main
\* returns without opening the file for writing: the file is as it was before
\* the run and the run ends without an error.
C2_DeclineLeavesFile ==
    (calls.prompt = 1 /\ res \notin Affirmative) =>
        /\ pc = "returned"
        /\ calls.wopen = 0
        /\ req = reqBefore
        /\ exc = "none"

C2_Witness ==
    /\ pc = "returned"
    /\ res = << " ", "y" >>
    /\ req = [ exists |-> TRUE, content |-> oldManifest ]

\* C3: after a run that writes, requirements.txt holds exactly the reconciled
\* entries in ascending order of the whole name==version string, one per
\* reconciled package, each ended by a newline, and nothing of what it held
\* before; a run over the same extracted set and inventory as the previous
\* one writes the same bytes.
C3_ManifestSorted ==
    pc = "done" =>
        LET M == freeze_packages.map
            wanted == IF freeze_packages.type = "dict"
                      THEN { p \o << "=", "=" >> \o M[p] :
                             p \in all_imports \cap DOMAIN M }
                      ELSE { }
        IN /\ req.exists
           /\ \E s \in ListsOf(wanted) :
                /\ \A i, j \in 1..Len(s) : i < j => StrLess(s[i], s[j])
                /\ req.content = Join([i \in 1..Len(s) |-> s[i] \o NL], << >>)
           /\ (prev.written /\ prev.imports = all_imports) =>
                req.content = prev.content

\* C3 witness: a second run, over the same set, that overwrote the file;
\* a1==1 sorts before a==2 although a sorts before a1
C3_Witness ==
    /\ pc = "done"
    /\ prev.written
    /\ prev.imports = all_imports
    /\ calls.prompt = 1
    /\ req.content = << "a", "1", "=", "=", "1", "\n", "a", "=", "=", "2", "\n",
                        "b", "=", "=", "3", "\n" >>

\* C4: no run of main ends in an uncaught error, whatever the folder
\* (with files, empty, or not existing), the files, pip and the answer.
C4_NoUncaughtError == exc = "none" /\ pc # "error"

\* C5: when pip cannot be located, get_pip_freeze logs an error and returns
\* an empty collection, reconciling any extracted set against it gives the
\* empty list without raising, and the manifest main writes is empty.
C5_NoPipEmptyManifest ==
    ~pipPresent =>
        /\ calls.inventory = 1 =>
            /\ \A p \in all_imports : ~Contains(freeze_packages, p)
            /\ freeze_packages.map = << >>
            /\ \E k \in 1..Len(log) :
                 log[k].level = "ERROR" /\ log[k].msg = "pip not found"
        /\ calls.reconciliation = 1 => missing_packages = << >>
        /\ pc = "done" => req = [ exists |-> TRUE, content |-> << >> ]

C5_Witness ==
    /\ ~pipPresent
    /\ pc = "done"
    /\ all_imports # { }
    /\ reqBefore.exists
    /\ req.content = << >>

C9_StagesOnce ==
    /\ \A st \in { "logger", "discovery", "inventory", "reconciliation",
                   "emission", "prompt", "wopen" } : calls[st] <= 1
    /\ \A k \in DOMAIN calls.extract : calls.extract[k] <= 1
    /\ calls.prompt = 1 => calls.emission = 1 /\ reqBefore.exists
    /\ (calls.emission = 1 /\ reqBefore.exists) => (calls.prompt = 1 \/ pc = "prompt")
    /\ calls.wopen = 1 =>
         /\ calls.discovery = 1
         /\ calls.inventory = 1
         /\ calls.reconciliation = 1
         /\ calls.emission = 1
         /\ DOMAIN calls.extract = 1..Len(files)
         /\ \A k \in 1..Len(files) : calls.extract[k] = 1
         /\ reqBefore.exists => (calls.prompt = 1 /\ res \in Affirmative)

C9_Witness ==
    /\ pc = "done"
    /\ calls.wopen = 1
    /\ calls.prompt = 1
    /\ reqBefore.exists
    /\ Len(files) = 2

\* C7: extract_imports_from_py returns, for each statement the pattern
\* matches, only the first component of the dotted name (import a.b.c gives
\* a, from x.y import z gives x), each name once; extracting again, or with
\* the statements in another order, gives the same set of names.
C7_RootPackageOnly ==
    (pc = "unit_done" /\ IsPy(disk[1]) /\ disk[1].present) =>
        LET t == disk[1].text
            lines == Split(t, NL)
        IN /\ NoDuplicates(ret)
           /\ Range(ret) = TextNames(t)
           /\ << kwImport, << "a", ".", "b", ".", "c" >> >> \in Range(FindAll(t))
                => << "a" >> \in Range(ret)
           /\ << kwFrom, << "x", ".", "y" >> >> \in Range(FindAll(t))
                => << "x" >> \in Range(ret)
           /\ \A n \in Range(ret) : "." \notin Range(n)
           /\ \A l \in extract_imports_from_py(disk[1]).rets : Range(l) = Range(ret)
           /\ (\A i \in 1..Len(lines) : ~IsBareKeyword(lines[i])) =>
                \A o \in Reorderings(lines) :
                    Range(RootNames(Join(o, NL))) = Range(ret)

\* C7 witness: two statements with the same root, a.b.c and a
C7_Witness ==
    /\ pc = "unit_done"
    /\ IsPy(disk[1])
    /\ disk[1].text = Join(<< lineImportABC, lineIndented >>, NL)
    /\ ret = << << "a" >> >>

\* C8: for a notebook that parses, extract_imports_from_ipynb returns the
\* union, over the cells of "cells" whose type is code, of the root names
\* matched in the joined source of the cell; other cells add nothing, and a
\* notebook without "cells" gives the empty set.
C8_CodeCellsOnly ==
    (pc = "unit_done" /\ IsIpynb(disk[1]) /\ disk[1].present
        /\ disk[1].kind = "object") =>
        LET f == disk[1]
            code == { j \in 1..Len(f.cells) : f.cells[j].cell_type = "code" }
        IN /\ NoDuplicates(ret)
           /\ f.hasCells =>
                Range(ret) = UNION { TextNames(Join(f.cells[i].source, NL)) : i \in code }
           /\ ~f.hasCells => ret = << >>

\* C8 witness: a markdown cell quoting from x.y import z and import b, then
\* a code cell importing b
C8_Witness ==
    /\ pc = "unit_done"
    /\ IsIpynb(disk[1])
    /\ Len(disk[1].cells) = 2
    /\ disk[1].cells[1].cell_type = "markdown"
    /\ << "x" >> \in TextNames(Join(disk[1].cells[1].source, NL))
    /\ disk[1].cells[2].cell_type = "code"
    /\ ret = << << "b" >> >>

\* C10: the pattern is line-anchored: every name extracted from a text comes
\* from a single line that, after optional whitespace, starts with the
\* keyword followed on that line by whitespace and the dotted name; a line
\* holding only the keyword yields no name.
C10_LineAnchored ==
    (pc = "unit_done" /\ IsPy(disk[1]) /\ disk[1].present) =>
        Range(ret) \subseteq LineNames(disk[1].text)

====
